---- MODULE Spec2Model ----
(***************************************************************************)
(* The `include` tag of crates/lib/src/stdlib/tags/include_tag.rs:         *)
(* Include::render_to run as a state machine over a runtime (scope stack,  *)
(* partial source, output sink), with the partial renders it calls into.   *)
(***************************************************************************)
EXTENDS Integers, Sequences, FiniteSets, TLC

VARIABLES
    self,     \* the Include being rendered (&self of the outermost render_to)
    caller,   \* the scope stack as it was when render_to was called
    stack,    \* runtime: the scope stack
    calls,    \* the activations of render_to in progress, innermost last
    ret,      \* the Result handed back to the innermost activation left
    raised,   \* the error as first raised, and the include sites it was raised under
    sink,     \* writer: the texts written
    queries,  \* the names the partial source was asked for
    first,    \* what an earlier render of the same Include, in a runtime of its own, gave
    arguments, \* IncludeTag::parse: the tag's tokens and the place of the next one
    parsed    \* IncludeTag::parse: partial, vars and the Result so far

vars == <<self, caller, stack, calls, ret, raised, sink, queries, first, arguments, parsed>>

\* Longest binding list of the rendered Include (Include.vars).
MaxVars == 2

\* Deepest call tree followed: an include is not entered beyond it.
MaxCalls == 8

\* Longest token sequence handed to IncludeTag::parse.
MaxTokens == 7

(***************************************************************************)
(* Values (liquid_core::Value).  s is a string scalar's text, n an integer *)
(* scalar's number, o an object's entries or an array's items.             *)
(***************************************************************************)
EmptyObj == <<>>

Nil == [kind |-> "Nil", s |-> "", n |-> 0, o |-> EmptyObj]

Str(x) == [kind |-> "Str", s |-> x, n |-> 0, o |-> EmptyObj]

Integer(x) == [kind |-> "Int", s |-> "", n |-> x, o |-> EmptyObj]

Array(items) == [kind |-> "Array", s |-> "", n |-> 0, o |-> items]

Obj(entries) == [kind |-> "Object", s |-> "", n |-> 0, o |-> entries]

\* ValueView::is_scalar: strings and numbers are scalars; nil, arrays and objects are not.
is_scalar(v) == v.kind \in {"Str", "Int"}

\* The decimal text of the integers the model uses.
IntText(x) == CASE x = 0 -> "0" [] x = 1 -> "1" [] x = 2 -> "2" [] OTHER -> "?"

\* ValueView::to_kstr: the rendered form of a value.
to_kstr(v) ==
    CASE v.kind = "Str" -> v.s
      [] v.kind = "Int" -> IntText(v.n)
      [] v.kind = "Nil" -> ""
      [] v.kind = "Array" -> "(array)"
      [] OTHER -> "(object)"

\* ValueView::source: the literal form of a value, as a sequence of text pieces.
source(v) ==
    CASE v.kind = "Str" -> <<"\"", v.s, "\"">>
      [] v.kind = "Int" -> <<IntText(v.n)>>
      [] v.kind = "Nil" -> <<"nil">>
      [] v.kind = "Array" -> <<"[", "..", "]">>
      [] OTHER -> <<"{", "..", "}">>

(***************************************************************************)
(* Expressions (liquid_core::Expression): a literal or a variable path.    *)
(***************************************************************************)
Literal(v) == [lit |-> TRUE, val |-> v, path |-> <<>>]

Variable(p) == [lit |-> FALSE, val |-> Nil, path |-> p]

\* Display of an Expression: a literal's source, a variable's dotted path.
ExprText(e) ==
    IF e.lit THEN source(e.val)
    ELSE IF Len(e.path) = 1 THEN e.path
    ELSE <<e.path[1], ".", e.path[2]>>

Some(v) == [ok |-> TRUE, v |-> v]

None == [ok |-> FALSE, v |-> Nil]

(***************************************************************************)
(* The scope stack (liquid_core::runtime::Stack): frame 1 holds the        *)
(* globals, the last frame is the innermost scope.                         *)
(***************************************************************************)
Frame(name, entries) == [name |-> name, vars |-> entries]

\* Stack::find_frame: the innermost frame that has the key, 0 when none has.
find_frame(st, key) ==
    LET has == {i \in 1..Len(st) : key \in DOMAIN st[i].vars}
    IN  IF has = {} THEN 0 ELSE CHOOSE i \in has : \A j \in has : j <= i

\* model::find::try_find below the first path component.
RECURSIVE try_find(_, _)
try_find(v, rest) ==
    IF rest = <<>> THEN Some(v)
    ELSE IF v.kind = "Object" /\ Head(rest) \in DOMAIN v.o
         THEN try_find(v.o[Head(rest)], Tail(rest))
         ELSE None

\* Stack::try_get: the path resolved in the innermost frame that has its first key.
try_get(st, path) ==
    LET f == find_frame(st, path[1])
    IN  IF f = 0 THEN None ELSE try_find(st[f].vars[path[1]], Tail(path))

\* Expression::try_evaluate: None when a variable does not resolve.
try_evaluate(e, st) == IF e.lit THEN Some(e.val) ELSE try_get(st, e.path)

\* Stack::push_named_frame.
push_named_frame(st, name) == Append(st, Frame(name, EmptyObj))

\* Stack::pop_frame.
pop_frame(st) == SubSeq(st, 1, Len(st) - 1)

\* Stack::set: one entry written in the innermost frame.
stack_set(st, key, v) ==
    [st EXCEPT ![Len(st)].vars =
        [k \in DOMAIN st[Len(st)].vars \cup {key} |->
            IF k = key THEN v ELSE st[Len(st)].vars[k]]]

(***************************************************************************)
(* Errors (liquid_core::Error): a message and a backtrace of frames, each  *)
(* frame an optional trace text and a list of (key, value) contexts.       *)
(***************************************************************************)
Trace(t) == [trace |-> t, context |-> <<>>]

\* Error::with_msg: the backtrace starts with one empty frame.
Error_with_msg(m) == [msg |-> m, backtrace |-> <<Trace(<<>>)>>]

\* Error::trace: a new frame is pushed.
trace(e, t) == [e EXCEPT !.backtrace = Append(@, Trace(t))]

\* Error::context: the pair is appended to the last frame.
context(e, k, v) ==
    [e EXCEPT !.backtrace[Len(e.backtrace)].context = Append(@, <<k, v>>)]

NoErr == [msg |-> "", backtrace |-> <<>>]

Ok(v) == [ok |-> TRUE, v |-> v, err |-> NoErr]

Err(e) == [ok |-> FALSE, v |-> Nil, err |-> e]

\* Expression::evaluate: an error when a variable does not resolve.
evaluate(e, st) ==
    LET r == try_evaluate(e, st)
    IN  IF r.ok THEN Ok(r.v)
        ELSE Err(context(Error_with_msg("Unknown variable"),
                         <<"requested variable">>, ExprText(e)))

(***************************************************************************)
(* The instruction (struct Include) and the nodes of a compiled template.  *)
(***************************************************************************)
Include(partial, bindings) == [partial |-> partial, vars |-> bindings]

NoInc == Include(Literal(Nil), <<>>)

Text(t) == [kind |-> "Text", text |-> t, expr |-> Literal(Nil), inc |-> NoInc]

Output(e) == [kind |-> "Output", text |-> "", expr |-> e, inc |-> NoInc]

IncludeNode(inc) == [kind |-> "Include", text |-> "", expr |-> Literal(Nil), inc |-> inc]

\* The partial source of the renders: PartialSource::try_get by name.
Partials ==
    [p \in {"var.txt", "text.txt", "bad.txt", "1", "mid.txt", "top.txt",
            "nf.txt", "bf.txt", "inv.txt", "late.txt", "loop.txt", "pass.txt"} |->
        CASE p = "var.txt" -> <<Output(Variable(<<"include", "k">>))>>
          [] p = "text.txt" -> <<Text("T"), Output(Variable(<<"x">>))>>
          [] p = "bad.txt" -> <<Text("B"), Output(Variable(<<"missing">>))>>
          [] p = "1" -> <<Text("one")>>
          [] p = "mid.txt" ->
                <<Text("M"),
                  IncludeNode(Include(Literal(Str("var.txt")),
                                      <<<<"k", Variable(<<"include", "k">>)>>>>)),
                  IncludeNode(Include(Literal(Str("bad.txt")), <<>>))>>
          [] p = "top.txt" ->
                <<IncludeNode(Include(Literal(Str("mid.txt")),
                                      <<<<"k", Literal(Str("v"))>>,
                                        <<"j", Variable(<<"x">>)>>>>)),
                  Text("Z")>>
          [] p = "nf.txt" -> <<IncludeNode(Include(Literal(Str("nope.txt")), <<>>))>>
          [] p = "bf.txt" ->
                <<IncludeNode(Include(Literal(Str("var.txt")),
                                      <<<<"k", Variable(<<"missing">>)>>>>))>>
          [] p = "inv.txt" -> <<IncludeNode(Include(Variable(<<"arr">>), <<>>))>>
          [] p = "late.txt" ->
                <<Text("L"),
                  IncludeNode(Include(Literal(Str("nope.txt")),
                                      <<<<"k", Literal(Str("v"))>>>>))>>
          [] p = "loop.txt" ->
                <<Text("O"), IncludeNode(Include(Literal(Str("loop.txt")), <<>>))>>
          [] OTHER -> <<Text("P"), IncludeNode(Include(Literal(Str("var.txt")), <<>>))>>]

\* PartialStore::get: the compiled partial, or the source's own error.
partials_get(name) ==
    IF name \in DOMAIN Partials THEN [ok |-> TRUE, err |-> NoErr]
    ELSE [ok |-> FALSE,
          err |-> context(Error_with_msg("Unknown partial-template"),
                          <<"requested partial">>, <<name>>)]

(***************************************************************************)
(* The pieces of Include::render_to.                                       *)
(***************************************************************************)
\* A check that turns away objects and lets arrays through.
NameRejected_ObjectsOnly(value) == value.kind = "Object"

\* if !value.is_scalar()
NameRejected(value) == ~is_scalar(value)

\* The error of a partial name that is no scalar (the message, without its quote marks).
InvalidPartialName(value) ==
    context(Error_with_msg("Can only include strings"), <<"partial">>, source(value))

\* The Binding Object made whether or not there are bindings.
HasBindings_Always(inc) == TRUE

\* if !self.vars.is_empty()
HasBindings(inc) == inc.vars # <<>>

\* The binding's expression evaluated in the new frame alone.
BindingValue_LocalOnly(e, st) == try_evaluate(e, <<st[Len(st)]>>)

\* val.try_evaluate(scope): the binding's expression in the newly opened scope.
BindingValue(e, st) == try_evaluate(e, st)

\* A loop that stays on the binding it has just inserted.
NextBinding_Stuck(i) == i

\* for (id, val) in &self.vars: on to the next binding.
NextBinding(i) == i + 1

\* The error of a binding expression that does not evaluate.
FailedToEvaluate == Error_with_msg("failed to evaluate value")

\* format!("{{% include {} %}}", self.partial)
IncludeTrace(inc) == <<"{% include ">> \o ExprText(inc.partial) \o <<" %}">>

\* The source's error passed up as it came.
NotFound_Untraced(inc, e) == e

\* The error of a partial the source does not have, traced with the tag's text.
NotFound(inc, e) == trace(e, IncludeTrace(inc))

\* The name added as context with no trace pushed for the tag.
RenderFailure_NoTrace(inc, name, e) == context(e, ExprText(inc.partial), <<name>>)

\* The error of the partial's own render, traced with the tag's text and the name.
RenderFailure(inc, name, e) ==
    context(trace(e, IncludeTrace(inc)), ExprText(inc.partial), <<name>>)

\* An insert that keeps the entry an id already has.
helper_insert_KeepFirst(h, id, v) ==
    [k \in DOMAIN h \cup {id} |-> IF k \in DOMAIN h THEN h[k] ELSE v]

\* helper_vars.insert(id, value): a later insert of the same id replaces the entry.
helper_insert(h, id, v) ==
    [k \in DOMAIN h \cup {id} |-> IF k = id THEN v ELSE h[k]]

\* The Binding Object written over the `include` an outer frame already has.
set_include_Outer(st, h) ==
    LET f == find_frame(st, "include")
    IN  IF f = 0 THEN stack_set(st, "include", Obj(h))
        ELSE [st EXCEPT ![f].vars = [k \in DOMAIN @ |->
                                        IF k = "include" THEN Obj(h) ELSE @[k]]]

\* The Binding Object set under another key.
set_include_Misnamed(st, h) == stack_set(st, "includes", Obj(h))

\* scope.stack_mut().set("include", Value::Object(helper_vars))
set_include(st, h) == stack_set(st, "include", Obj(h))

\* A pushed frame that starts with an `include` of its own, bound to nil.
OpenScope_Hiding(st, name) ==
    Append(st, Frame(name, [k \in {"include"} |-> Nil]))

\* runtime.run_in_named_scope(name, ..): the frame pushed before the closure runs.
OpenScope(st, name) == push_named_frame(st, name)

\* A scope that is left open.
CloseScope_Leak(st) == st

\* runtime.run_in_named_scope(name, ..): the frame popped when the closure returns.
CloseScope(st) == pop_frame(st)

(***************************************************************************)
(* The call tree: the activations of render_to, innermost last.            *)
(***************************************************************************)
IncAct(inc) ==
    [kind |-> "inc", tpl |-> "", pc |-> 0, inc |-> inc, phase |-> "start",
     name |-> "", i |-> 0, helper_vars |-> EmptyObj]

TplAct(p) ==
    [kind |-> "tpl", tpl |-> p, pc |-> 1, inc |-> NoInc, phase |-> "",
     name |-> "", i |-> 0, helper_vars |-> EmptyObj]

Returning == [st |-> "none", err |-> NoErr]

ReturnOk == [st |-> "ok", err |-> NoErr]

ReturnErr(e) == [st |-> "err", err |-> e]

top == calls[Len(calls)]

Popped == SubSeq(calls, 1, Len(calls) - 1)

Running(kind) == Len(calls) > 0 /\ top.kind = kind /\ ret.st = "none"

\* The include sites whose partial is being rendered, outermost first.
Sites == SelectSeq(calls, LAMBDA a : a.kind = "inc" /\ a.phase = "render")

NotRaised == [err |-> NoErr, chain |-> <<>>]

\* An error raised: handed back, and recorded with the sites it was raised under.
Raise(e) ==
    /\ ret' = ReturnErr(e)
    /\ raised' = [err |-> e, chain |-> Sites]

(***************************************************************************)
(* The renders considered: one Include, rendered in a caller's scope chain. *)
(***************************************************************************)
Globals ==
    Frame("", [k \in {"x", "arr", "pname"} |->
                CASE k = "x" -> Str("gx")
                  [] k = "arr" -> Array(<<Str("var.txt")>>)
                  [] OTHER -> Str("var.txt")])

\* A caller frame that already holds an `include` of its own.
OuterFrame == Frame("outer", [k \in {"include"} |-> Obj([j \in {"k"} |-> Str("text.txt")])])

CallerStacks == {<<Globals>>, <<Globals, OuterFrame>>}

PartialExprs ==
    {Literal(Str(p)) : p \in DOMAIN Partials \cup {"nope.txt"}}
        \cup {Literal(Integer(1))}
        \cup {Variable(p) : p \in {<<"pname">>, <<"arr">>, <<"include">>,
                                   <<"missing">>, <<"include", "k">>}}

Ids == {"k", "j"}

BindExprs ==
    {Literal(Str("hello")), Variable(<<"x">>), Variable(<<"missing">>),
     Variable(<<"include", "k">>)}

BindingLists == UNION {[1..n -> Ids \X BindExprs] : n \in 0..MaxVars}

RootIncludes == {Include(p, b) : p \in PartialExprs, b \in BindingLists}

\* No earlier render.
NotRendered == [done |-> FALSE, ret |-> Returning, sink |-> <<>>, queries |-> <<>>]

\* IncludeTag::parse not called.
NoArguments == [tokens |-> <<>>, pos |-> 1]

NoParseError == [by |-> "", msg |-> "", at |-> 0]

NotParsing == [st |-> "idle", partial |-> Literal(Nil), vars |-> <<>>, err |-> NoParseError]

Init ==
    /\ self \in RootIncludes
    /\ caller \in CallerStacks
    /\ stack = caller
    /\ calls = <<IncAct(self)>>
    /\ ret = Returning
    /\ raised = NotRaised
    /\ sink = <<>>
    /\ queries = <<>>
    /\ first = NotRendered
    /\ arguments = NoArguments
    /\ parsed = NotParsing

(***************************************************************************)
(* Include::render_to, one action per stretch between the calls it makes.  *)
(***************************************************************************)
\* The partial name evaluated, checked and converted, and the scope opened.
IncEvalName ==
    /\ Running("inc") /\ top.phase = "start"
    /\ LET value == evaluate(top.inc.partial, stack)
           name == to_kstr(value.v)
       IN  IF ~value.ok
           THEN /\ Raise(value.err)
                /\ calls' = Popped
                /\ stack' = stack
           ELSE IF NameRejected(value.v)
           THEN /\ Raise(InvalidPartialName(value.v))
                /\ calls' = Popped
                /\ stack' = stack
           ELSE /\ stack' = OpenScope(stack, name)
                /\ calls' = [calls EXCEPT ![Len(calls)] =
                                [@ EXCEPT !.name = name, !.i = 1,
                                          !.phase = IF HasBindings(top.inc)
                                                    THEN "bind" ELSE "lookup"]]
                /\ UNCHANGED <<ret, raised>>
    /\ UNCHANGED <<first, arguments, parsed, self, caller, sink, queries>>

\* A loop that sets `include` anew after every binding it inserts.
IncBind_InstallsEarly ==
    /\ Running("inc") /\ top.phase = "bind" /\ top.i <= Len(top.inc.vars)
    /\ LET id == top.inc.vars[top.i][1]
           val == BindingValue(top.inc.vars[top.i][2], stack)
       IN  IF val.ok
           THEN /\ calls' = [calls EXCEPT ![Len(calls)] =
                                [@ EXCEPT !.i = NextBinding(@),
                                          !.helper_vars = helper_insert(@, id, val.v)]]
                /\ stack' = set_include(stack, helper_insert(top.helper_vars, id, val.v))
                /\ UNCHANGED <<ret, raised>>
           ELSE /\ Raise(FailedToEvaluate)
                /\ stack' = CloseScope(stack)
                /\ calls' = Popped
    /\ UNCHANGED <<first, arguments, parsed, self, caller, sink, queries>>

\* A loop that passes over a binding that fails to evaluate.
IncBind_SkipFailed ==
    /\ Running("inc") /\ top.phase = "bind" /\ top.i <= Len(top.inc.vars)
    /\ LET id == top.inc.vars[top.i][1]
           val == BindingValue(top.inc.vars[top.i][2], stack)
       IN  calls' = [calls EXCEPT ![Len(calls)] =
                        [@ EXCEPT !.i = NextBinding(@),
                                  !.helper_vars = IF val.ok THEN helper_insert(@, id, val.v)
                                                  ELSE @]]
    /\ UNCHANGED <<first, arguments, parsed, self, caller, sink, queries, stack, ret, raised>>

\* One turn of the loop over self.vars: the binding evaluated and inserted.
IncBind ==
    /\ Running("inc") /\ top.phase = "bind" /\ top.i <= Len(top.inc.vars)
    /\ LET id == top.inc.vars[top.i][1]
           val == BindingValue(top.inc.vars[top.i][2], stack)
       IN  IF val.ok
           THEN /\ calls' = [calls EXCEPT ![Len(calls)] =
                                [@ EXCEPT !.i = NextBinding(@),
                                          !.helper_vars = helper_insert(@, id, val.v)]]
                /\ UNCHANGED <<stack, ret, raised>>
           ELSE /\ Raise(FailedToEvaluate)
                /\ stack' = CloseScope(stack)
                /\ calls' = Popped
    /\ UNCHANGED <<first, arguments, parsed, self, caller, sink, queries>>

\* After the loop: the Binding Object set as `include` in the new scope.
IncSetInclude ==
    /\ Running("inc") /\ top.phase = "bind" /\ top.i > Len(top.inc.vars)
    /\ stack' = set_include(stack, top.helper_vars)
    /\ calls' = [calls EXCEPT ![Len(calls)].phase = "lookup"]
    /\ UNCHANGED <<first, arguments, parsed, self, caller, ret, raised, sink, queries>>

\* A lookup that writes the name it did not find.
IncLookup_WritesName ==
    /\ Running("inc") /\ top.phase = "lookup"
    /\ queries' = Append(queries, top.name)
    /\ LET partial == partials_get(top.name)
       IN  IF partial.ok
           THEN /\ calls' = Append([calls EXCEPT ![Len(calls)].phase = "render"],
                                   TplAct(top.name))
                /\ UNCHANGED <<stack, ret, raised, sink>>
           ELSE /\ Raise(NotFound(top.inc, partial.err))
                /\ stack' = CloseScope(stack)
                /\ calls' = Popped
                /\ sink' = Append(sink, top.name)
    /\ UNCHANGED <<first, arguments, parsed, self, caller>>

\* The partial source queried; the partial's render entered when it is found.
IncLookup ==
    /\ Running("inc") /\ top.phase = "lookup"
    /\ queries' = Append(queries, top.name)
    /\ LET partial == partials_get(top.name)
       IN  IF partial.ok
           THEN /\ calls' = Append([calls EXCEPT ![Len(calls)].phase = "render"],
                                   TplAct(top.name))
                /\ UNCHANGED <<stack, ret, raised>>
           ELSE /\ Raise(NotFound(top.inc, partial.err))
                /\ stack' = CloseScope(stack)
                /\ calls' = Popped
    /\ UNCHANGED <<first, arguments, parsed, self, caller, sink>>

\* A return that takes the bindings out of the Include as the outermost render ends.
IncReturn_TakesVars ==
    /\ Len(calls) > 0 /\ top.kind = "inc" /\ top.phase = "render" /\ ret.st # "none"
    /\ ret' = IF ret.st = "ok" THEN ReturnOk
              ELSE ReturnErr(RenderFailure(top.inc, top.name, ret.err))
    /\ stack' = CloseScope(stack)
    /\ calls' = Popped
    /\ self' = IF Len(calls) = 1 THEN [self EXCEPT !.vars = <<>>] ELSE self
    /\ UNCHANGED <<first, arguments, parsed, caller, raised, sink, queries>>

\* The partial's render returned: its error traced, the scope closed.
IncReturn ==
    /\ Len(calls) > 0 /\ top.kind = "inc" /\ top.phase = "render" /\ ret.st # "none"
    /\ ret' = IF ret.st = "ok" THEN ReturnOk
              ELSE ReturnErr(RenderFailure(top.inc, top.name, ret.err))
    /\ stack' = CloseScope(stack)
    /\ calls' = Popped
    /\ UNCHANGED <<first, arguments, parsed, self, caller, raised, sink, queries>>

(***************************************************************************)
(* Template::render_to: the nodes of a partial rendered in order.          *)
(***************************************************************************)
node == Partials[top.tpl][top.pc]

AtNode(kind) ==
    /\ Running("tpl") /\ top.pc <= Len(Partials[top.tpl])
    /\ node.kind = kind

Advance == [calls EXCEPT ![Len(calls)].pc = @ + 1]

TplText ==
    /\ AtNode("Text")
    /\ sink' = Append(sink, node.text)
    /\ calls' = Advance
    /\ UNCHANGED <<first, arguments, parsed, self, caller, stack, ret, raised, queries>>

\* {{ expr }}: the value written, or the evaluation's error traced with the node's text.
TplOutput ==
    /\ AtNode("Output")
    /\ LET value == evaluate(node.expr, stack)
       IN  IF value.ok
           THEN /\ sink' = Append(sink, to_kstr(value.v))
                /\ calls' = Advance
                /\ UNCHANGED <<ret, raised>>
           ELSE /\ Raise(trace(value.err, <<"{{">> \o ExprText(node.expr) \o <<"}}">>))
                /\ calls' = Popped
                /\ sink' = sink
    /\ UNCHANGED <<first, arguments, parsed, self, caller, stack, queries>>

\* An include tag in the partial: render_to entered.
TplInclude ==
    /\ AtNode("Include")
    /\ Len(calls) < MaxCalls
    /\ calls' = Append(calls, IncAct(node.inc))
    /\ UNCHANGED <<first, arguments, parsed, self, caller, stack, ret, raised, sink, queries>>

\* A node's render_to returned: the next node on Ok, the error passed up otherwise.
TplResume ==
    /\ Len(calls) > 0 /\ top.kind = "tpl" /\ ret.st # "none"
    /\ IF ret.st = "ok"
       THEN calls' = Advance /\ ret' = Returning
       ELSE calls' = Popped /\ ret' = ret
    /\ UNCHANGED <<first, arguments, parsed, self, caller, stack, raised, sink, queries>>

TplDone ==
    /\ Running("tpl") /\ top.pc > Len(Partials[top.tpl])
    /\ calls' = Popped
    /\ ret' = ReturnOk
    /\ UNCHANGED <<first, arguments, parsed, self, caller, stack, raised, sink, queries>>

Next ==
    \/ IncEvalName
    \/ IncBind
    \/ IncSetInclude
    \/ IncLookup
    \/ IncReturn
    \/ TplText
    \/ TplOutput
    \/ TplInclude
    \/ TplResume
    \/ TplDone

Spec == Init /\ [][Next]_vars

\* render_to has returned to its caller.
Done == calls = <<>>

\* The render run to its end: a call that can take a step takes it.
SpecLive == Spec /\ WF_vars(Next)

(***************************************************************************)
(* The same Include rendered a second time, in a runtime of its own with   *)
(* the same variables, the same partial source and an empty sink.          *)
(***************************************************************************)
Rerender ==
    /\ Done /\ ~first.done
    /\ first' = [done |-> TRUE, ret |-> ret, sink |-> sink, queries |-> queries]
    /\ stack' = caller
    /\ calls' = <<IncAct(self)>>
    /\ ret' = Returning
    /\ raised' = NotRaised
    /\ sink' = <<>>
    /\ queries' = <<>>
    /\ UNCHANGED <<self, caller, arguments, parsed>>

NextTwice == Next \/ Rerender

SpecTwice == Init /\ [][NextTwice]_vars

(***************************************************************************)
(* IncludeTag::parse over the tag's argument tokens (TagTokenIter).        *)
(***************************************************************************)
Token(kind, text) == [kind |-> kind, text |-> text]

\* A bare identifier, a string literal, the colon, and another punctuation mark.
Tokens == {Token("Id", "k"), Token("Lit", "a"), Token("Colon", ":"), Token("Punct", "=")}

TokenSeqs == UNION {[1..n -> Tokens] : n \in 0..MaxTokens}

\* TagToken::expect_value: a literal or a variable is a value.
IsValue(tok) == tok.kind \in {"Id", "Lit"}

token_value(tok) ==
    IF tok.kind = "Lit" THEN Literal(Str(tok.text)) ELSE Variable(<<tok.text>>)

\* TagToken::expect_identifier: a bare identifier only.
IsIdentifier(tok) == tok.kind = "Id"

\* A separator check that lets any token stand for the colon.
IsColon_Any(tok) == TRUE

\* .expect_str(":")
IsColon(tok) == tok.text = ":"

\* A push that replaces the pair an identifier already has.
vars_push_Dedup(bindings, id, e) ==
    IF \E j \in DOMAIN bindings : bindings[j][1] = id
    THEN [j \in DOMAIN bindings |-> IF bindings[j][1] = id THEN <<id, e>> ELSE bindings[j]]
    ELSE Append(bindings, <<id, e>>)

\* vars.push((id, value))
vars_push(bindings, id, e) == Append(bindings, <<id, e>>)

\* The Err a parse returns: which expectation failed, its message, the token's place.
ParseError(by, msg, at) ==
    [st |-> "err", partial |-> Literal(Nil), vars |-> <<>>,
     err |-> [by |-> by, msg |-> msg, at |-> at]]

\* TagTokenIter: whether a token is left, and the next one.
HasNext == arguments.pos <= Len(arguments.tokens)

TokenAt(i) == arguments.tokens[i]

ParseInit ==
    /\ arguments \in {[tokens |-> t, pos |-> 1] : t \in TokenSeqs}
    /\ parsed = [NotParsing EXCEPT !.st = "partial"]
    /\ self = NoInc
    /\ caller = <<>>
    /\ stack = <<>>
    /\ calls = <<>>
    /\ ret = Returning
    /\ raised = NotRaised
    /\ sink = <<>>
    /\ queries = <<>>
    /\ first = NotRendered

\* The first argument: expected, and expected to be a value.
ParsePartial ==
    /\ parsed.st = "partial"
    /\ IF ~HasNext
       THEN /\ parsed' = ParseError("expect_next", "Identifier or literal expected.",
                                    arguments.pos)
            /\ arguments' = arguments
       ELSE IF ~IsValue(TokenAt(arguments.pos))
       THEN /\ parsed' = ParseError("expect_value", "", arguments.pos)
            /\ arguments' = [arguments EXCEPT !.pos = @ + 1]
       ELSE /\ parsed' = [parsed EXCEPT !.st = "pairs",
                                        !.partial = token_value(TokenAt(arguments.pos))]
            /\ arguments' = [arguments EXCEPT !.pos = @ + 1]
    /\ UNCHANGED <<self, caller, stack, calls, ret, raised, sink, queries, first>>

\* One turn of the while loop: an identifier, the colon, a value.
ParsePair ==
    /\ parsed.st = "pairs" /\ HasNext
    /\ LET p == arguments.pos
           n == Len(arguments.tokens)
       IN  IF ~IsIdentifier(TokenAt(p))
           THEN /\ parsed' = ParseError("expect_identifier", "", p)
                /\ arguments' = [arguments EXCEPT !.pos = p + 1]
           ELSE IF p + 1 > n
           THEN /\ parsed' = ParseError("expect_next", "\":\" expected.", p + 1)
                /\ arguments' = [arguments EXCEPT !.pos = p + 1]
           ELSE IF ~IsColon(TokenAt(p + 1))
           THEN /\ parsed' = ParseError("expect_str",
                                        "expected \":\" to be used for the assignment",
                                        p + 1)
                /\ arguments' = [arguments EXCEPT !.pos = p + 2]
           ELSE IF p + 2 > n
           THEN /\ parsed' = ParseError("expect_next", "expected value", p + 2)
                /\ arguments' = [arguments EXCEPT !.pos = p + 2]
           ELSE IF ~IsValue(TokenAt(p + 2))
           THEN /\ parsed' = ParseError("expect_value", "", p + 2)
                /\ arguments' = [arguments EXCEPT !.pos = p + 3]
           ELSE /\ parsed' = [parsed EXCEPT !.vars =
                                 vars_push(@, TokenAt(p).text, token_value(TokenAt(p + 2)))]
                /\ arguments' = [arguments EXCEPT !.pos = p + 3]
    /\ UNCHANGED <<self, caller, stack, calls, ret, raised, sink, queries, first>>

\* No token left: Ok(Box::new(Include { partial, vars })).
ParseEnd ==
    /\ parsed.st = "pairs" /\ ~HasNext
    /\ parsed' = [parsed EXCEPT !.st = "ok"]
    /\ UNCHANGED <<arguments, self, caller, stack, calls, ret, raised, sink, queries, first>>

ParseNext == ParsePartial \/ ParsePair \/ ParseEnd

ParseSpec == ParseInit /\ [][ParseNext]_vars

(***************************************************************************)
(* What the properties speak of.                                           *)
(***************************************************************************)
Range(q) == {q[i] : i \in DOMAIN q}

\* The activation at p is an include that has opened its scope.
OpenAt(p) == calls[p].kind = "inc" /\ calls[p].phase # "start"

\* The index of the frame the include at p pushed.
FrameOf(p) == Len(caller) + Cardinality({q \in 1..p : OpenAt(q)})

\* The scope chain the include at p was called in, and the chain with its own frame.
Below(p) == SubSeq(stack, 1, FrameOf(p) - 1)

Upto(p) == SubSeq(stack, 1, FrameOf(p))

\* The partial of the include at p is being rendered.
Rendering(p) == calls[p].kind = "inc" /\ calls[p].phase = "render"

Composite(v) == v.kind \in {"Array", "Object"}

\* The value of the rendered Include's partial name in the caller's scope.
SelfName == try_evaluate(self.partial, caller)

\* Every binding of the rendered Include evaluates in the caller's scope.
SelfBindingsEvaluate ==
    \A j \in DOMAIN self.vars : try_evaluate(self.vars[j][2], caller).ok

\* C1: an include whose partial name evaluates to an array or an object fails
\* with the "Can only include strings" error, and for that render no scope is
\* opened and the partial source is not queried.
C1_CompositeNameFails ==
    /\ (SelfName.ok /\ Composite(SelfName.v)) =>
          /\ queries = <<>>
          /\ stack = caller
          /\ \A p \in DOMAIN calls : calls[p].kind = "inc" /\ calls[p].phase = "start"
          /\ Done => ret.st = "err" /\ ret.err.msg = "Can only include strings"
    /\ \A p \in DOMAIN calls :
          OpenAt(p) =>
             /\ FrameOf(p) <= Len(stack)
             /\ ~Composite(try_evaluate(calls[p].inc.partial, Below(p)).v)

C1_Witness ==
    /\ Done /\ ret.st = "err"
    /\ SelfName.ok /\ SelfName.v.kind = "Array"

\* C2: the scope stack holds the caller's frames plus one frame per include
\* whose scope is open, named by that include's partial, at any depth of
\* nesting; once render_to has returned, by success or by any error, it holds
\* the caller's frames alone.
C2_ScopeStackRestored ==
    /\ Len(stack) = Len(caller) + Cardinality({p \in DOMAIN calls : OpenAt(p)})
    /\ \A f \in 1..Len(caller) : stack[f].name = caller[f].name
    /\ \A p \in DOMAIN calls : OpenAt(p) => stack[FrameOf(p)].name = calls[p].name
    /\ Done => Len(stack) = Len(caller)

C2_Witness ==
    /\ Done /\ ret.st = "err"
    /\ Len(raised.chain) = 3

\* C3: when the partial source has no entry for the name, render_to returns an
\* error that is the source's own error with one frame added, the text of the
\* include tag; nothing is written and no partial is rendered.
C3_NotFoundIsTracedError ==
    /\ (/\ SelfName.ok /\ is_scalar(SelfName.v)
        /\ to_kstr(SelfName.v) \notin DOMAIN Partials
        /\ SelfBindingsEvaluate) =>
          /\ \A p \in DOMAIN calls : calls[p].kind = "inc"
          /\ sink = <<>>
          /\ Done =>
               /\ ret.st = "err"
               /\ ret.err.msg = "Unknown partial-template"
               /\ ret.err.backtrace =
                    <<[trace |-> <<>>,
                       context |-> <<<<<<"requested partial">>,
                                       <<to_kstr(SelfName.v)>>>>>>],
                      [trace |-> <<"{% include ">> \o ExprText(self.partial) \o <<" %}">>,
                       context |-> <<>>]>>
    /\ (raised.err.msg = "Unknown partial-template") =>
          /\ Len(raised.err.backtrace) = 2
          /\ raised.err.backtrace[2].trace # <<>>
          /\ raised.err.backtrace[2].trace[1] = "{% include "

C3_Witness ==
    /\ Done /\ ret.st = "err"
    /\ self.partial = Literal(Str("nope.txt"))
    /\ self.vars # <<>>
    /\ queries = <<"nope.txt">>

\* The expression of the last binding of id in a binding list.
LastExpr(bindings, id) ==
    LET js == {j \in DOMAIN bindings : bindings[j][1] = id}
    IN  bindings[CHOOSE j \in js : \A m \in js : m <= j][2]

BoundIds(bindings) == {bindings[j][1] : j \in DOMAIN bindings}

\* C4: while the partial of an include with bindings is rendered, `include.k`
\* resolves in the new scope to the value of k's binding expression; the
\* partial {{include.k}} writes that value.
C4_BindingsReadAsInclude ==
    /\ \A p \in DOMAIN calls :
          (Rendering(p) /\ calls[p].inc.vars # <<>>) =>
             /\ FrameOf(p) <= Len(stack)
             /\ \A k \in BoundIds(calls[p].inc.vars) :
                   /\ try_get(Upto(p), <<"include", k>>).ok
                   /\ try_get(Upto(p), <<"include", k>>) =
                        try_evaluate(LastExpr(calls[p].inc.vars, k), Below(p))
    /\ (/\ Done /\ ret.st = "ok"
        /\ self.partial = Literal(Str("var.txt"))
        /\ "k" \in BoundIds(self.vars)) =>
          sink = <<to_kstr(try_evaluate(LastExpr(self.vars, "k"), caller).v)>>

C4_Witness ==
    /\ Done /\ ret.st = "ok"
    /\ self = Include(Literal(Str("var.txt")), <<<<"k", Literal(Str("hello"))>>>>)
    /\ sink = <<"hello">>

\* The Binding Object the first n bindings make: one entry per id, the value
\* that of the id's last binding among them.
ObjectOf(bindings, n, st) ==
    [k \in BoundIds(SubSeq(bindings, 1, n)) |->
        try_evaluate(LastExpr(SubSeq(bindings, 1, n), k), st).v]

\* C5: the bindings are evaluated and inserted in the order of the tag: before
\* the i-th turn the Binding Object holds the first i-1 bindings, one entry per
\* identifier with the value of its last occurrence, and the object installed
\* as `include` holds them all.
C5_InOrderLastWins ==
    \A p \in DOMAIN calls :
       /\ (calls[p].kind = "inc" /\ calls[p].phase = "bind") =>
             /\ calls[p].i \in 1..(Len(calls[p].inc.vars) + 1)
             /\ calls[p].helper_vars =
                  ObjectOf(calls[p].inc.vars, calls[p].i - 1, Below(p))
       /\ (OpenAt(p) /\ calls[p].phase # "bind" /\ calls[p].inc.vars # <<>>) =>
             /\ FrameOf(p) <= Len(stack)
             /\ "include" \in DOMAIN stack[FrameOf(p)].vars
             /\ stack[FrameOf(p)].vars["include"] =
                  Obj(ObjectOf(calls[p].inc.vars, Len(calls[p].inc.vars), Below(p)))

C5_Witness ==
    /\ Len(calls) = 2 /\ Rendering(1)
    /\ self.vars = <<<<"k", Literal(Str("hello"))>>, <<"k", Variable(<<"x">>)>>>>
    /\ try_get(stack, <<"include", "k">>) = Some(Str("gx"))

\* A word of the error's traces or contexts.
Mentions(e, w) ==
    \E f \in Range(e.backtrace) :
       \/ w \in Range(f.trace)
       \/ \E c \in Range(f.context) : w \in Range(c[1]) \cup Range(c[2])

\* The first binding of the rendered Include that does not evaluate.
FirstFailing ==
    LET js == {j \in DOMAIN self.vars : ~try_evaluate(self.vars[j][2], caller).ok}
    IN  CHOOSE j \in js : \A m \in js : j <= m

\* C6: when a binding expression fails to evaluate, render_to fails with the
\* binding error, and that error names the identifier of the binding.
C6_BindingErrorNamesIdentifier ==
    (/\ Done
     /\ SelfName.ok /\ is_scalar(SelfName.v)
     /\ ~SelfBindingsEvaluate) =>
       /\ ret.st = "err"
       /\ ret.err.msg = "failed to evaluate value"
       /\ Mentions(ret.err, self.vars[FirstFailing][1])

\* C7: every error that leaves render_to carries the text of the include tag,
\* and every error raised after the name was converted carries the name too.
C7_EveryErrorAttributed ==
    (Done /\ ret.st = "err" /\ SelfName.ok) =>
       /\ \E f \in Range(ret.err.backtrace) :
             f.trace = <<"{% include ">> \o ExprText(self.partial) \o <<" %}">>
       /\ (SelfName.ok /\ is_scalar(SelfName.v)) =>
             \E f \in Range(ret.err.backtrace) :
                \E c \in Range(f.context) : c[2] = <<to_kstr(SelfName.v)>>

\* The frame an include site adds to an error of its partial's render.
SiteFrame(a) ==
    [trace |-> <<"{% include ">> \o ExprText(a.inc.partial) \o <<" %}">>,
     context |-> <<<<ExprText(a.inc.partial), <<a.name>>>>>>]

\* The include sites the error has passed on its way up, innermost first.
Passed ==
    [j \in 1..(Len(raised.chain) - Len(Sites)) |->
        SiteFrame(raised.chain[Len(raised.chain) - j + 1])]

\* C8: an error raised while a chain of includes is rendering keeps its
\* message and its own frames, and has behind them one frame per include site
\* it has passed, the innermost site first, each with the tag's text as trace
\* and the partial name as its one context.
C8_TraceFramePerSite ==
    (ret.st = "err") =>
       /\ Len(Sites) <= Len(raised.chain)
       /\ Sites = SubSeq(raised.chain, 1, Len(Sites))
       /\ ret.err.msg = raised.err.msg
       /\ ret.err.backtrace = raised.err.backtrace \o Passed

C8_Witness ==
    /\ Done /\ ret.st = "err"
    /\ Len(raised.chain) = 3
    /\ Len(ret.err.backtrace) = Len(raised.err.backtrace) + 3
    /\ ret.err.msg = "Unknown variable"

\* C9: a partial name that is an unresolvable reference fails with the
\* "Can only include strings" error, with the expression's text as context.
C9_UnresolvedNameIsInvalidName ==
    (Done /\ ~SelfName.ok) =>
       /\ ret.st = "err"
       /\ ret.err.msg = "Can only include strings"
       /\ \E f \in Range(ret.err.backtrace) :
             \E c \in Range(f.context) : c[2] = ExprText(self.partial)

\* C10: the caller's frames hold the same bindings throughout and after the
\* render; a frame an include pushed holds nothing but the `include` that
\* include set; and while a partial of an include with bindings is rendered,
\* `include` resolves in that pushed frame, not in an outer one.
C10_OnlyIncludeInOwnFrame ==
    /\ Len(stack) >= Len(caller)
    /\ SubSeq(stack, 1, Len(caller)) = caller
    /\ Done => stack = caller
    /\ \A p \in DOMAIN calls :
          OpenAt(p) =>
             /\ FrameOf(p) <= Len(stack)
             /\ stack[FrameOf(p)].vars =
                  IF calls[p].phase # "bind" /\ calls[p].inc.vars # <<>>
                  THEN [k \in {"include"} |-> Obj(calls[p].helper_vars)]
                  ELSE EmptyObj
             /\ (Rendering(p) /\ calls[p].inc.vars # <<>>) =>
                   find_frame(Upto(p), "include") = FrameOf(p)

C10_Witness ==
    /\ Len(caller) = 2 /\ "include" \in DOMAIN caller[2].vars
    /\ Len(calls) = 2 /\ Rendering(1)
    /\ self.vars # <<>>
    /\ try_get(stack, <<"include">>) # try_get(caller, <<"include">>)

\* C11: an include with an empty binding list makes no Binding Object: it goes
\* from the opened scope straight to the lookup, and the frame it pushed has no
\* `include` entry while its partial is looked up and rendered.
C11_NoBindingsNoInclude ==
    \A p \in DOMAIN calls :
       (OpenAt(p) /\ calls[p].inc.vars = <<>>) =>
          /\ FrameOf(p) <= Len(stack)
          /\ calls[p].phase \in {"lookup", "render"}
          /\ "include" \notin DOMAIN stack[FrameOf(p)].vars
          /\ try_get(<<stack[FrameOf(p)]>>, <<"include">>) = None

C11_Witness ==
    /\ Len(calls) = 2 /\ Rendering(1)
    /\ self = Include(Literal(Str("text.txt")), <<>>)
    /\ top.pc = 2
    /\ stack[Len(stack)].vars = EmptyObj

\* The variables a caller's scope chain holds, `include` aside.
CallerKeys == {"x", "arr", "pname", "missing"}

\* A partial with no include tag in it.
Leaf(p) == \A j \in DOMAIN Partials[p] : Partials[p][j].kind # "Include"

\* The nodes of a leaf partial rendered one after the other in a scope chain:
\* the texts written, and whether every node rendered.
RECURSIVE DirectRender(_, _)
DirectRender(nodes, st) ==
    IF nodes = <<>> THEN [out |-> <<>>, ok |-> TRUE]
    ELSE LET n == Head(nodes)
             v == try_evaluate(n.expr, st)
             rest == DirectRender(Tail(nodes), st)
         IN  IF n.kind = "Text"
             THEN [out |-> <<n.text>> \o rest.out, ok |-> rest.ok]
             ELSE IF v.ok
             THEN [out |-> <<to_kstr(v.v)>> \o rest.out, ok |-> rest.ok]
             ELSE [out |-> <<>>, ok |-> FALSE]

IsPrefix(a, b) == Len(a) <= Len(b) /\ a = SubSeq(b, 1, Len(a))

\* C12: inside an included partial every variable of the caller's scope chain
\* resolves as it does at the include site; an include without bindings of a
\* partial writes what the partial's nodes write when rendered in the caller's
\* scope; and a binding expression that evaluates in the caller's scope
\* evaluates in the include.
C12_CallerVariablesVisible ==
    /\ \A p \in DOMAIN calls :
          OpenAt(p) =>
             /\ FrameOf(p) <= Len(stack)
             /\ \A k \in CallerKeys : try_get(Upto(p), <<k>>) = try_get(Below(p), <<k>>)
    /\ (/\ self.vars = <<>>
        /\ SelfName.ok /\ is_scalar(SelfName.v)
        /\ to_kstr(SelfName.v) \in DOMAIN Partials
        /\ Leaf(to_kstr(SelfName.v))) =>
          LET direct == DirectRender(Partials[to_kstr(SelfName.v)], caller)
          IN  /\ IsPrefix(sink, direct.out)
              /\ Done => sink = direct.out /\ (ret.st = "ok") = direct.ok
    /\ (raised.err.msg = "failed to evaluate value" /\ raised.chain = <<>>) =>
          ~SelfBindingsEvaluate

C12_Witness ==
    /\ Done /\ ret.st = "ok"
    /\ self = Include(Literal(Str("text.txt")), <<>>)
    /\ sink = <<"T", "gx">>

C16_BindingFailureAborts ==
    /\ \A p \in DOMAIN calls :
          /\ (calls[p].kind = "inc" /\ calls[p].phase = "bind") =>
                \A j \in 1..(calls[p].i - 1) :
                   j <= Len(calls[p].inc.vars) =>
                      try_evaluate(calls[p].inc.vars[j][2], Below(p)).ok
          /\ (OpenAt(p) /\ calls[p].phase \in {"lookup", "render"}) =>
                \A j \in DOMAIN calls[p].inc.vars :
                   try_evaluate(calls[p].inc.vars[j][2], Below(p)).ok
    /\ (SelfName.ok /\ is_scalar(SelfName.v) /\ ~SelfBindingsEvaluate) =>
          /\ Len(calls) <= 1
          /\ \A p \in DOMAIN calls :
                /\ calls[p].kind = "inc" /\ calls[p].phase \in {"start", "bind"}
                /\ calls[p].i <= FirstFailing
          /\ \A f \in (Len(caller) + 1)..Len(stack) : stack[f].vars = EmptyObj
          /\ queries = <<>>
          /\ sink = <<>>
          /\ Done =>
               /\ ret = ReturnErr(FailedToEvaluate)
               /\ raised.chain = <<>>
               /\ ~ENABLED Next

C16_Witness ==
    /\ Done /\ ret.st = "err"
    /\ self = Include(Literal(Str("var.txt")),
                      <<<<"k", Variable(<<"missing">>)>>, <<"k", Literal(Str("hello"))>>>>)
    /\ queries = <<>>

\* The rendered Include fails before its partial is rendered: at the name, at
\* the scalar check, at a binding or at the lookup.
SelfFailsEarly ==
    \/ ~SelfName.ok
    \/ ~is_scalar(SelfName.v)
    \/ ~SelfBindingsEvaluate
    \/ to_kstr(SelfName.v) \notin DOMAIN Partials

\* C17: no step of Include::render_to itself changes the sink, whether it goes
\* on or fails: what is written is written by the nodes of a partial; so an
\* include that fails at the name, the scalar check, a binding or the lookup
\* leaves the sink as it found it, and the sink stays empty throughout when
\* the rendered Include fails so.
C17_IncludeWritesNothing ==
    /\ [][(Len(calls) > 0 /\ top.kind = "inc") => sink' = sink]_vars
    /\ [](SelfFailsEarly => sink = <<>>)

C17_Witness ==
    /\ Done /\ ret.st = "err"
    /\ self.partial = Literal(Str("late.txt"))
    /\ queries = <<"late.txt", "nope.txt">>
    /\ sink = <<"L">>

\* The includes with bindings whose partial is being rendered around the
\* activation at p.
Enclosing(p) ==
    {q \in 1..(p - 1) : Rendering(q) /\ calls[q].inc.vars # <<>>}

\* C18: while an include evaluates its bindings the frame it pushed holds no
\* `include`, so each binding expression has the value it has in the scope
\* chain of the include site; an inner binding include.x therefore gets the
\* value x has in the Binding Object of the enclosing include. With the
\* partials top.txt, mid.txt and var.txt, the k: 'v' of top.txt reaches
\* {{include.k}} in var.txt through the k: include.k of mid.txt.
C18_InnerBindingsSeeEnclosing ==
    /\ \A p \in DOMAIN calls :
          /\ (calls[p].kind = "inc" /\ calls[p].phase = "bind") =>
                /\ FrameOf(p) <= Len(stack)
                /\ "include" \notin DOMAIN stack[FrameOf(p)].vars
                /\ \A j \in DOMAIN calls[p].inc.vars :
                      try_evaluate(calls[p].inc.vars[j][2], Upto(p)) =
                         try_evaluate(calls[p].inc.vars[j][2], Below(p))
          /\ (Rendering(p) /\ calls[p].inc.vars # <<>> /\ Enclosing(p) # {}) =>
                LET q == CHOOSE m \in Enclosing(p) : \A n \in Enclosing(p) : n <= m
                IN  \A k \in BoundIds(calls[p].inc.vars) :
                       LET e == LastExpr(calls[p].inc.vars, k)
                       IN  (~e.lit /\ Len(e.path) = 2 /\ e.path[1] = "include") =>
                              /\ e.path[2] \in DOMAIN calls[q].helper_vars
                              /\ try_get(Upto(p), <<"include", k>>) =
                                    Some(calls[q].helper_vars[e.path[2]])
    /\ (Done /\ self.partial = Literal(Str("top.txt")) /\ SelfBindingsEvaluate) =>
          sink = <<"M", "v", "B">>

C18_Witness ==
    /\ Len(calls) = 6
    /\ Rendering(3) /\ calls[3].inc.vars # <<>>
    /\ Rendering(5) /\ calls[5].inc.vars = <<<<"k", Variable(<<"include", "k">>)>>>>
    /\ try_get(stack, <<"include", "k">>) = Some(Str("v"))
    /\ sink = <<"M", "v">>

\* C19: the frame pushed by an include without bindings does not stand between
\* its partial and an `include` further out: `include`, and every entry of it,
\* resolves in the new scope as it does at the include site. With pass.txt,
\* which includes var.txt without bindings, {% include 'pass.txt' k: e %}
\* writes "P" and then the value of e.
C19_EmptyBindingsFallThrough ==
    /\ \A p \in DOMAIN calls :
          (OpenAt(p) /\ calls[p].inc.vars = <<>>) =>
             /\ FrameOf(p) <= Len(stack)
             /\ try_get(Upto(p), <<"include">>) = try_get(Below(p), <<"include">>)
             /\ \A k \in Ids :
                   try_get(Upto(p), <<"include", k>>) = try_get(Below(p), <<"include", k>>)
             /\ Enclosing(p) # {} =>
                   LET q == CHOOSE m \in Enclosing(p) : \A n \in Enclosing(p) : n <= m
                   IN  try_get(Upto(p), <<"include">>) = Some(Obj(calls[q].helper_vars))
    /\ (/\ Done
        /\ self.partial = Literal(Str("pass.txt"))
        /\ "k" \in BoundIds(self.vars)
        /\ SelfBindingsEvaluate) =>
          /\ ret.st = "ok"
          /\ sink = <<"P", to_kstr(try_evaluate(LastExpr(self.vars, "k"), caller).v)>>

C19_Witness ==
    /\ Len(calls) = 4
    /\ Rendering(1) /\ self = Include(Literal(Str("pass.txt")), <<<<"k", Literal(Str("hello"))>>>>)
    /\ Rendering(3) /\ calls[3].inc.vars = <<>>
    /\ stack[Len(stack)].vars = EmptyObj
    /\ sink = <<"P", "hello">>

\* The partial names the include tags of a partial name: a literal's text, or
\* the text of the variable's value in the globals; none for a name that is
\* no scalar there.
Included(p) ==
    IF p \notin DOMAIN Partials THEN {}
    ELSE {to_kstr(try_evaluate(n.inc.partial, <<Globals>>).v) :
             n \in {m \in Range(Partials[p]) :
                      /\ m.kind = "Include"
                      /\ try_evaluate(m.inc.partial, <<Globals>>).ok
                      /\ is_scalar(try_evaluate(m.inc.partial, <<Globals>>).v)}}

\* Some chain of includes that starts at p comes back to a partial on it.
RECURSIVE Cyclic(_, _)
Cyclic(p, path) ==
    \/ p \in path
    \/ \E q \in Included(p) : Cyclic(q, path \cup {p})

Max(S) == CHOOSE n \in S : \A m \in S : m <= n

\* The number of includes on the longest chain that starts with an include of p.
RECURSIVE Chain(_)
Chain(p) == 1 + Max({0} \cup {Chain(q) : q \in Included(p)})

\* The frames pushed by includes.
Pushed == Len(stack) - Len(caller)

\* The rendered Include names a partial from which no chain of includes
\* comes back to a partial on it (a name that fails or resolves to no partial
\* starts no chain).
SelfAcyclic ==
    (SelfName.ok /\ is_scalar(SelfName.v)) => ~Cyclic(to_kstr(SelfName.v), {})

\* C20: when the include relation of the partials the render can reach is
\* acyclic, render_to returns, with Ok or an error, and the frames pushed by
\* includes never outnumber the includes on the longest chain; the one loop of
\* the include, over its bindings, has its index within the binding list and
\* at most one past it.
C20_AcyclicRenderTerminates ==
    /\ SelfAcyclic => <>(Done /\ ret.st \in {"ok", "err"})
    /\ [](SelfAcyclic =>
             /\ SelfName.ok /\ is_scalar(SelfName.v) => Pushed <= Chain(to_kstr(SelfName.v))
             /\ ~(SelfName.ok /\ is_scalar(SelfName.v)) => Pushed = 0)
    /\ [](\A p \in DOMAIN calls :
             (calls[p].kind = "inc" /\ calls[p].phase = "bind") =>
                calls[p].i \in 1..(Len(calls[p].inc.vars) + 1))

C20_Witness ==
    /\ self.partial = Literal(Str("top.txt"))
    /\ Pushed = 3 /\ Chain("top.txt") = 3
    /\ Len(calls) = 5 /\ calls[5].phase = "bind"

(***************************************************************************)
(* The grammar  <value> (<identifier> ":" <value>)*  said by position.     *)
(***************************************************************************)
\* What the grammar wants at place i of the token sequence.
Wanted(i) ==
    IF i = 1 \/ i % 3 = 1 THEN "value"
    ELSE IF i % 3 = 2 THEN "identifier" ELSE "colon"

Fits(tok, want) ==
    CASE want = "value" -> tok.kind \in {"Id", "Lit"}
      [] want = "identifier" -> tok.kind = "Id"
      [] OTHER -> tok.kind = "Colon"

\* The places that break the grammar: a token that does not fit, or the end of
\* the tokens where a value or a colon is still owed.
Offences(toks) ==
    {i \in 1..Len(toks) : ~Fits(toks[i], Wanted(i))}
        \cup (IF Wanted(Len(toks) + 1) # "identifier" THEN {Len(toks) + 1} ELSE {})

WellFormed(toks) == Offences(toks) = {}

FirstOffence(toks) == CHOOSE i \in Offences(toks) : \A j \in Offences(toks) : i <= j

Pairs(toks) == (Len(toks) - 1) \div 3

ErrorAt(toks, i) ==
    IF i > Len(toks)
    THEN [by |-> "expect_next", at |-> i,
          msg |-> CASE Wanted(i) = "colon" -> "\":\" expected."
                    [] i = 1 -> "Identifier or literal expected."
                    [] OTHER -> "expected value"]
    ELSE [by |-> CASE Wanted(i) = "value" -> "expect_value"
                   [] Wanted(i) = "identifier" -> "expect_identifier"
                   [] OTHER -> "expect_str",
          at |-> i,
          msg |-> IF Wanted(i) = "colon"
                  THEN "expected \":\" to be used for the assignment" ELSE ""]

====
